---- MODULE Spec2Model ----
(***************************************************************************)
(* NASA-TLX survey wizard (src/main.py): a discrete slider widget, six     *)
(* rating pages and an optional pairwise weighting page inside a QWizard,  *)
(* the score computed at Finish, and the JSON / CSV logs it appends to.    *)
(*                                                                         *)
(* Numbers: Python's float results are kept as exact quotients             *)
(* [num, den]; pointer positions and widget widths are whole pixels.       *)
(***************************************************************************)
EXTENDS Integers, Sequences, FiniteSets, TLC

VARIABLES
    phase,          \* "running" (wizard shown), "finished" (accepted), "closed" (rejected)
    use_weighting,  \* TLXApp.use_weighting
    page,           \* id of the wizard's current page (ids 0.. in addPage order)
    sliders,        \* page id -> the TLXSlider of that rating page (page.slider)
    checked,        \* button group index -> 0 (no button checked), 1 (rb1), 2 (rb2)
    weights,        \* TLXApp.weights
    ratings,        \* TLXApp.ratings
    warned,         \* the "Total selections exceed 15" message box has been shown
    result_data,    \* the record save_results built last
    error,          \* the exception the last save_results raised ("none" if none)
    json_file,      \* data/nasa_tlx_results.json
    csv_file,       \* data/nasa_tlx_results.csv
    runs,           \* program runs started so far
    faulted         \* history: an I/O operation has failed in some run

vars == <<phase, use_weighting, page, sliders, checked, weights, ratings, warned,
          result_data, error, json_file, csv_file, runs, faulted>>

(***************************************************************************)
(* Bounds of the model.                                                    *)
(***************************************************************************)
\* slider configurations tried: min_val in -MaxOffset..MaxOffset
MaxOffset == 1
\* slider configurations tried: max_val - min_val in 0..MaxSpan
MaxSpan == 4
\* slider configurations tried: step in 1..MaxStep
MaxStep == 3
\* widget widths tried: MinimumWidth..MinimumWidth + MaxExtraWidth
MaxExtraWidth == 0
\* the pointer may leave the widget by this many pixels on either side
MaxOvershoot == 2
\* a drag moves the pointer by at most this many pixels per move event
MaxDrag == 2
\* the survey and score specifications press at most this many sliders
MaxMoved == 1
\* the survey specification clicks only in the first MaxPairs button groups
MaxPairs == 2
\* the score specification checks the second button in at most MaxSecond pairs
MaxSecond == 1
\* the weighting specification answers the pairs top to bottom, leaving at most
\* MaxSkip unanswered pairs above the pair it clicks
MaxSkip == 0
\* the weighting specification clicks a pair again while at most MaxRevise of the
\* pairs below it are answered
MaxRevise == 1
\* program runs per behaviour
MaxRuns == 3
\* wall-clock readings 1..MaxClock
MaxClock == 1

(***************************************************************************)
(* Program constants.                                                      *)
(***************************************************************************)
FACTORS ==
    <<"Mental Demand", "Physical Demand", "Temporal Demand",
      "Performance", "Effort", "Frustration">>

Factors == {FACTORS[i] : i \in DOMAIN FACTORS}

\* TLXSlider.__init__ defaults
DefaultMin == 0
DefaultMax == 100
DefaultStep == 5
DefaultValue == 50
\* setMinimumSize(QSize(700, 100))
MinimumWidth == 700
\* the track starts TrackMargin pixels inside the widget, on both sides
TrackMargin == 10
\* the divisor of the weighted score
WeightDivisor == 15

Min(a, b) == IF a < b THEN a ELSE b
Max(a, b) == IF a > b THEN a ELSE b
Abs(a) == IF a < 0 THEN -a ELSE a

(***************************************************************************)
(* round(n / d) for d > 0, n / d being the float the code has computed:    *)
(* the nearest integer.  Python rounds an exact tie to the even            *)
(* neighbour, but the float reached through relative_x / width need not be *)
(* the tie exactly (x = 401 on a 700 pixel widget gives 55, not 60), so at *)
(* a tie either neighbour is a result.  \div and % are floor division and  *)
(* its remainder.                                                          *)
(***************************************************************************)
RoundTruncating(n, d) == {IF n >= 0 THEN n \div d ELSE -((-n) \div d)}

Round(n, d) ==
    LET q == n \div d
        r == n % d
    IN  IF 2 * r < d THEN {q}
        ELSE IF 2 * r > d THEN {q + 1}
        ELSE {q, q + 1}

(***************************************************************************)
(* TLXSlider                                                               *)
(***************************************************************************)
TLXSlider(min_val, max_val, step) ==
    [min_val |-> min_val, max_val |-> max_val, step |-> step,
     value |-> DefaultValue, pressed |-> FALSE, x |-> 0, w |-> MinimumWidth]

\* the usable track of a widget w pixels wide, and the pointer clamped onto it
TrackWidth(w) == w - 2 * TrackMargin
RelativeX(x, w) == Min(Max(0, x - TrackMargin), TrackWidth(w))

\* update_value: round((min + (relative_x / width) * (max - min)) / step) * step,
\* the quotient being (min * width + relative_x * (max - min)) / (width * step):
\* the sliders the call may leave.  pressed, x and w record the event handled.
update_value(s, x, w) ==
    LET width == TrackWidth(w)
        relative_x == RelativeX(x, w)
        rounded == Round(s.min_val * width + relative_x * (s.max_val - s.min_val),
                         width * s.step)
    IN  {[s EXCEPT !.value = r * s.step, !.pressed = TRUE, !.x = x, !.w = w] :
            r \in rounded}

get_value(s) == s.value

(***************************************************************************)
(* Dictionaries are functions; {} is the function with no keys.            *)
(***************************************************************************)
EmptyDict == [k \in {} |-> 0]

RECURSIVE SumOver(_, _)
SumOver(d, keys) ==
    IF keys = {} THEN 0
    ELSE LET k == CHOOSE k \in keys : TRUE
         IN  d[k] + SumOver(d, keys \ {k})

\* sum(d.values())
SumValues(d) == SumOver(d, DOMAIN d)

\* n / d in Python: the exact quotient, kept as the pair it was computed from
Quotient(n, d) == [num |-> n, den |-> d]

(***************************************************************************)
(* TLXApp: the pages.  addPage gives the six rating pages the ids 0..5 in  *)
(* FACTORS order and the weighting page, when enabled, the id 6.           *)
(***************************************************************************)
RatingPages == 0 .. (Len(FACTORS) - 1)
WeightingPage == Len(FACTORS)
LastPage(uw) == IF uw THEN WeightingPage ELSE Len(FACTORS) - 1

\* FACTORS.index(factor)
IndexOf(factor) == (CHOOSE i \in DOMAIN FACTORS : FACTORS[i] = factor) - 1

(***************************************************************************)
(* create_weighting_page: one button group per pair (f1, f2) with f2 after *)
(* f1 in FACTORS, in the order the two loops make them.                    *)
(***************************************************************************)
RECURSIVE AllOrderedPairsFrom(_)
AllOrderedPairsFrom(i) ==
    IF i > Len(FACTORS) THEN <<>>
    ELSE [j \in 1 .. Len(FACTORS) |-> <<FACTORS[i], FACTORS[j]>>]
            \o AllOrderedPairsFrom(i + 1)

AllOrderedPairs == AllOrderedPairsFrom(1)

RECURSIVE PairsFrom(_)
PairsFrom(i) ==
    IF i > Len(FACTORS) THEN <<>>
    ELSE [j \in 1 .. (Len(FACTORS) - i) |-> <<FACTORS[i], FACTORS[i + j]>>]
            \o PairsFrom(i + 1)

\* button_groups: group g offers Pairs[g][1] (rb1) and Pairs[g][2] (rb2)
Pairs == PairsFrom(1)

Groups == DOMAIN Pairs

\* btn_grp.checkedButton().text(), for a group that has a checked button
CheckedText(chk, g) == Pairs[g][chk[g]]

\* a tally that only ever counts the first button of a group
update_weights_rb1(chk) ==
    [factor \in Factors |->
        Cardinality({g \in Groups : chk[g] = 1 /\ CheckedText(chk, g) = factor})]

\* update_weights: the tally recomputed from all button groups
update_weights(chk) ==
    [factor \in Factors |->
        Cardinality({g \in Groups : chk[g] # 0 /\ CheckedText(chk, g) = factor})]

Answered(chk) == {g \in Groups : chk[g] # 0}

(***************************************************************************)
(* save_results: the record.                                               *)
(***************************************************************************)
\* {factor: self.page(FACTORS.index(factor)).slider.get_value() for factor in FACTORS}
ReadRatings(sl) == [factor \in Factors |-> get_value(sl[IndexOf(factor)])]

AdjustedRatings(rts, wts, uw) ==
    IF uw THEN [factor \in Factors |-> rts[factor] * wts[factor]] ELSE EmptyDict

\* a score that is the plain mean whatever the setting
WeightedRatingMean(rts, wts, uw) == Quotient(SumValues(rts), Len(FACTORS))

WeightedRating(rts, wts, uw) ==
    IF uw THEN Quotient(SumValues(AdjustedRatings(rts, wts, uw)), WeightDivisor)
    ELSE Quotient(SumValues(rts), Len(FACTORS))

\* a record that keeps self.weights and the products whatever the setting
ResultDataKeepWeights(ts, rts, wts, uw) ==
    [timestamp        |-> ts,
     ratings          |-> rts,
     weights          |-> wts,
     adjusted_ratings |-> [factor \in Factors |-> rts[factor] * wts[factor]],
     weighted_rating  |-> WeightedRating(rts, wts, uw)]

ResultData(ts, rts, wts, uw) ==
    [timestamp        |-> ts,
     ratings          |-> rts,
     weights          |-> IF uw THEN wts ELSE EmptyDict,
     adjusted_ratings |-> IF uw THEN AdjustedRatings(rts, wts, uw) ELSE EmptyDict,
     weighted_rating  |-> WeightedRating(rts, wts, uw)]

\* result_data before any record has been built
NoResult ==
    [timestamp |-> 0, ratings |-> EmptyDict, weights |-> EmptyDict,
     adjusted_ratings |-> EmptyDict, weighted_rating |-> Quotient(0, 1)]

(***************************************************************************)
(* JSON.  A file is [kind, items]: "absent", or by its content "zero" (no  *)
(* bytes), "garbage" (text that does not parse, a partly written document  *)
(* included), "object", "scalar", or "array" with its elements in items.   *)
(* An element is [t |-> "obj", members |-> <<key, value>> pairs in the     *)
(* order written] or [t |-> "num", ...].  Loaded, an element is            *)
(* [t |-> "dict", d |-> the dictionary] or [t |-> "int", ...].             *)
(***************************************************************************)
JsonAbsent == [kind |-> "absent", items |-> <<>>]
JsonText(kind) == [kind |-> kind, items |-> <<>>]
JsonArray(items) == [kind |-> "array", items |-> items]

\* the keys of d in the order they were inserted (FACTORS order)
KeysInOrder(d) == SelectSeq(FACTORS, LAMBDA f : f \in DOMAIN d)

DumpDict(d) ==
    LET keys == KeysInOrder(d)
    IN  [i \in 1 .. Len(keys) |-> <<keys[i], d[keys[i]]>>]

Member(members, key) ==
    members[CHOOSE i \in DOMAIN members : members[i][1] = key][2]

LoadDict(members) ==
    [k \in {members[i][1] : i \in DOMAIN members} |-> Member(members, k)]

DumpElement(v) ==
    IF v.t = "dict"
    THEN [t |-> "obj",
          members |-> << <<"timestamp", v.d.timestamp>>,
                         <<"ratings", DumpDict(v.d.ratings)>>,
                         <<"weights", DumpDict(v.d.weights)>>,
                         <<"adjusted_ratings", DumpDict(v.d.adjusted_ratings)>>,
                         <<"weighted_rating", v.d.weighted_rating>> >>]
    ELSE [t |-> "num", members |-> <<>>]

LoadElement(e) ==
    IF e.t = "obj"
    THEN [t |-> "dict",
          d |-> [timestamp        |-> Member(e.members, "timestamp"),
                 ratings          |-> LoadDict(Member(e.members, "ratings")),
                 weights          |-> LoadDict(Member(e.members, "weights")),
                 adjusted_ratings |-> LoadDict(Member(e.members, "adjusted_ratings")),
                 weighted_rating  |-> Member(e.members, "weighted_rating")]]
    ELSE [t |-> "int", d |-> EmptyDict]

\* a dump of the last element alone
JsonDumpLast(data) == JsonArray(<<DumpElement(data[Len(data)])>>)

\* json.dump(data, f): the whole list, element by element
JsonDump(data) == JsonArray([i \in DOMAIN data |-> DumpElement(data[i])])

\* json.load that answers [] for whatever it cannot use
JsonLoadLenient(file) ==
    IF file.kind = "array"
    THEN [error |-> "none", isList |-> TRUE,
          data |-> [i \in DOMAIN file.items |-> LoadElement(file.items[i])]]
    ELSE [error |-> "none", isList |-> TRUE, data |-> <<>>]

\* json.load(f) of an existing file: the error it raises, whether the value
\* is a list, and the list
JsonLoad(file) ==
    CASE file.kind \in {"zero", "garbage"} ->
            [error |-> "JSONDecodeError", isList |-> FALSE, data |-> <<>>]
      [] file.kind \in {"object", "scalar"} ->
            [error |-> "none", isList |-> FALSE, data |-> <<>>]
      [] OTHER ->
            [error |-> "none", isList |-> TRUE,
             data |-> [i \in DOMAIN file.items |-> LoadElement(file.items[i])]]

PyDict(d) == [t |-> "dict", d |-> d]

(***************************************************************************)
(* CSV.  A file is [exists, rows]; a row is [header, cells], header TRUE   *)
(* for the row writeheader writes.                                         *)
(***************************************************************************)
CsvAbsent == [exists |-> FALSE, rows |-> <<>>]

\* f"adjusted_{factor}"
AdjustedName(factor) ==
    CASE factor = "Mental Demand"   -> "adjusted_Mental Demand"
      [] factor = "Physical Demand" -> "adjusted_Physical Demand"
      [] factor = "Temporal Demand" -> "adjusted_Temporal Demand"
      [] factor = "Performance"     -> "adjusted_Performance"
      [] factor = "Effort"          -> "adjusted_Effort"
      [] factor = "Frustration"     -> "adjusted_Frustration"

AdjustedNames == [i \in DOMAIN FACTORS |-> AdjustedName(FACTORS[i])]

Fieldnames(uw) ==
    <<"timestamp">> \o FACTORS \o (IF uw THEN AdjustedNames ELSE <<>>)
        \o <<"weighted_rating">>

\* csv_data
CsvData(rec, uw) ==
    LET adjusted == IF uw THEN {AdjustedName(f) : f \in Factors} ELSE {}
        keys == {"timestamp", "weighted_rating"} \cup Factors \cup adjusted
    IN  [k \in keys |->
            CASE k = "timestamp" -> rec.timestamp
              [] k = "weighted_rating" -> rec.weighted_rating
              [] k \in Factors ->
                    IF k \in DOMAIN rec.ratings THEN rec.ratings[k] ELSE ""
              [] OTHER ->
                    LET f == CHOOSE f \in Factors : AdjustedName(f) = k
                    IN  IF f \in DOMAIN rec.adjusted_ratings
                        THEN rec.adjusted_ratings[f] ELSE ""]

\* writer.writeheader() and writer.writerow(csv_data)
HeaderRow(fieldnames) == [header |-> TRUE, cells |-> fieldnames]
DataRow(fieldnames, csv_data) ==
    [header |-> FALSE,
     cells |-> [i \in DOMAIN fieldnames |->
                    IF fieldnames[i] \in DOMAIN csv_data
                    THEN csv_data[fieldnames[i]] ELSE ""]]

(***************************************************************************)
(* save_to_files.  fault names the one file operation of this call that    *)
(* fails, if it is reached:                                                *)
(*   json_read           opening or reading the existing JSON file         *)
(*   json_open           opening the JSON file for writing                 *)
(*   json_write_zero     writing it: open has truncated it, nothing lands  *)
(*   json_write_partial  writing it: part of the document lands            *)
(*   csv_open            opening the CSV file for appending                *)
(*   csv_write           writing it: nothing lands (open has created it)   *)
(*   csv_write_row       writing it: a header that was due lands, the row  *)
(*                       does not                                          *)
(***************************************************************************)
Faults ==
    {"none", "json_read", "json_open", "json_write_zero", "json_write_partial",
     "csv_open", "csv_write", "csv_write_row"}

\* lines 160-168
SaveJson(rec, jf, fault) ==
    LET exists == jf.kind # "absent"
        loaded == IF exists THEN JsonLoad(jf)
                  ELSE [error |-> "none", isList |-> TRUE, data |-> <<>>]
    IN  IF exists /\ fault = "json_read" THEN [json |-> jf, error |-> "OSError"]
        ELSE IF loaded.error # "none" THEN [json |-> jf, error |-> loaded.error]
        ELSE IF ~loaded.isList THEN [json |-> jf, error |-> "AttributeError"]
        ELSE IF fault = "json_open" THEN [json |-> jf, error |-> "OSError"]
        ELSE IF fault = "json_write_zero"
             THEN [json |-> JsonText("zero"), error |-> "OSError"]
        ELSE IF fault = "json_write_partial"
             THEN [json |-> JsonText("garbage"), error |-> "OSError"]
        ELSE [json |-> JsonDump(Append(loaded.data, PyDict(rec))), error |-> "none"]

\* a test that never finds the file
FileExistsNever(cf) == FALSE

\* os.path.exists(csv_file)
FileExists(cf) == cf.exists

\* lines 170-186
SaveCsv(rec, uw, cf, fault) ==
    LET csv_data == CsvData(rec, uw)
        file_exists == FileExists(cf)
        fieldnames == Fieldnames(uw)
        header == IF file_exists THEN <<>> ELSE <<HeaderRow(fieldnames)>>
    IN  IF fault = "csv_open" THEN [csv |-> cf, error |-> "OSError"]
        ELSE IF fault = "csv_write"
             THEN [csv |-> [exists |-> TRUE, rows |-> cf.rows], error |-> "OSError"]
        ELSE IF fault = "csv_write_row"
             THEN [csv |-> [exists |-> TRUE, rows |-> cf.rows \o header],
                   error |-> "OSError"]
        ELSE [csv |-> [exists |-> TRUE,
                       rows |-> cf.rows \o header \o <<DataRow(fieldnames, csv_data)>>],
              error |-> "none"]

\* a save that writes the CSV row first and the JSON array after it
save_to_files_csv_first(rec, uw, jf, cf, fault) ==
    LET c == SaveCsv(rec, uw, cf, fault)
        j == SaveJson(rec, jf, fault)
    IN  IF c.error # "none" THEN [json |-> jf, csv |-> c.csv, error |-> c.error]
        ELSE [json |-> j.json, csv |-> c.csv, error |-> j.error]

save_to_files(rec, uw, jf, cf, fault) ==
    LET j == SaveJson(rec, jf, fault)
        c == SaveCsv(rec, uw, cf, fault)
    IN  IF j.error # "none" THEN [json |-> j.json, csv |-> cf, error |-> j.error]
        ELSE [json |-> j.json, csv |-> c.csv, error |-> c.error]

\* datetime.now(): the readings the wall clock may give
Clock == 1 .. MaxClock

(***************************************************************************)
(* The state after TLXApp.__init__, with the log files as they are found.  *)
(***************************************************************************)
TLXApp(uw) ==
    /\ phase = "running"
    /\ use_weighting = uw
    /\ page = 0
    /\ sliders = [p \in RatingPages |-> TLXSlider(DefaultMin, DefaultMax, DefaultStep)]
    /\ checked = [g \in Groups |-> 0]
    /\ weights = [factor \in Factors |-> 0]
    /\ ratings = EmptyDict
    /\ warned = FALSE
    /\ result_data = NoResult
    /\ error = "none"

Init ==
    /\ \E uw \in BOOLEAN : TLXApp(uw)
    /\ json_file = JsonAbsent
    /\ csv_file = CsvAbsent
    /\ runs = 1
    /\ faulted = FALSE

(***************************************************************************)
(* save_results, called with the clock reading ts and the fault that       *)
(* strikes its file operations.                                            *)
(***************************************************************************)
save_results(ts, fault) ==
    LET rts == ReadRatings(sliders)
        rec == ResultData(ts, rts, weights, use_weighting)
        out == save_to_files(rec, use_weighting, json_file, csv_file, fault)
    IN  /\ ratings' = rts
        /\ result_data' = rec
        /\ json_file' = out.json
        /\ csv_file' = out.csv
        /\ error' = out.error
        /\ faulted' = (faulted \/ out.error = "OSError")

\* a wizard whose Next button is the one connected to save_results
ConnectedNextButton == "NextButton"

\* self.button(QWizard.FinishButton).clicked.connect(self.save_results)
ConnectedButton == "FinishButton"

\* a wizard button's clicked signal
clicked(button) ==
    IF button = ConnectedButton
    THEN \E ts \in Clock, fault \in Faults : save_results(ts, fault)
    ELSE UNCHANGED <<ratings, result_data, error, json_file, csv_file, faulted>>

(***************************************************************************)
(* The wizard's buttons (QWizard): Next and Back move to the adjacent      *)
(* page, Finish is offered on the last page and accepts the wizard, Cancel *)
(* (or closing the window) rejects it.                                     *)
(***************************************************************************)
NextButton ==
    /\ phase = "running"
    /\ page < LastPage(use_weighting)
    /\ page' = page + 1
    /\ clicked("NextButton")
    /\ UNCHANGED <<phase, use_weighting, sliders, checked, weights, warned, runs>>

BackButton ==
    /\ phase = "running"
    /\ page > 0
    /\ page' = page - 1
    /\ clicked("BackButton")
    /\ UNCHANGED <<phase, use_weighting, sliders, checked, weights, warned, runs>>

FinishButton ==
    /\ phase = "running"
    /\ page = LastPage(use_weighting)
    /\ phase' = "finished"
    /\ clicked("FinishButton")
    /\ UNCHANGED <<use_weighting, page, sliders, checked, weights, warned, runs>>

CancelButton ==
    /\ phase = "running"
    /\ phase' = "closed"
    /\ clicked("CancelButton")
    /\ UNCHANGED <<use_weighting, page, sliders, checked, weights, warned, runs>>

(***************************************************************************)
(* The slider of the current rating page.  A move event reaches a widget   *)
(* only after a press on it.                                               *)
(***************************************************************************)
mousePressEvent(x, w) ==
    /\ phase = "running"
    /\ page \in RatingPages
    /\ \E s \in update_value(sliders[page], x, w) : sliders' = [sliders EXCEPT ![page] = s]
    /\ UNCHANGED <<phase, use_weighting, page, checked, weights, ratings, warned,
                   result_data, error, json_file, csv_file, runs, faulted>>

mouseMoveEvent(x, w) ==
    /\ phase = "running"
    /\ page \in RatingPages
    /\ sliders[page].pressed
    /\ \E s \in update_value(sliders[page], x, w) : sliders' = [sliders EXCEPT ![page] = s]
    /\ UNCHANGED <<phase, use_weighting, page, checked, weights, ratings, warned,
                   result_data, error, json_file, csv_file, runs, faulted>>

(***************************************************************************)
(* buttonClicked of group g, button b (1: rb1, 2: rb2): the exclusive      *)
(* group checks b and unchecks the other, then update_weights runs.        *)
(***************************************************************************)
buttonClicked(g, b) ==
    /\ phase = "running"
    /\ use_weighting
    /\ page = WeightingPage
    /\ checked' = [checked EXCEPT ![g] = b]
    /\ weights' = update_weights(checked')
    /\ warned' = (warned \/ SumValues(weights') > WeightDivisor)
    /\ UNCHANGED <<phase, use_weighting, page, sliders, ratings, result_data, error,
                   json_file, csv_file, runs, faulted>>

(***************************************************************************)
(* main: the program is started again after the wizard has gone; the log   *)
(* files are those the earlier runs left.                                  *)
(***************************************************************************)
main ==
    /\ phase # "running"
    /\ runs < MaxRuns
    /\ runs' = runs + 1
    /\ \E uw \in BOOLEAN :
        /\ phase' = "running"
        /\ use_weighting' = uw
        /\ page' = 0
        /\ sliders' = [p \in RatingPages |->
                            TLXSlider(DefaultMin, DefaultMax, DefaultStep)]
        /\ checked' = [g \in Groups |-> 0]
        /\ weights' = [factor \in Factors |-> 0]
        /\ ratings' = EmptyDict
        /\ warned' = FALSE
        /\ result_data' = NoResult
        /\ error' = "none"
    /\ UNCHANGED <<json_file, csv_file, faulted>>

(***************************************************************************)
(* What the user does, by specification.                                   *)
(***************************************************************************)
\* Survey, score: presses at the left and the right edge of the current
\* slider, on at most MaxMoved sliders
PressEdge ==
    \E x \in {0, MinimumWidth} :
        /\ page \in RatingPages
        /\ \/ sliders[page].pressed
           \/ Cardinality({p \in RatingPages : sliders[p].pressed}) < MaxMoved
        /\ mousePressEvent(x, MinimumWidth)

\* Survey: clicks in the first MaxPairs button groups
ClickFirstPairs ==
    \E g \in Groups, b \in {1, 2} :
        /\ g <= MaxPairs
        /\ buttonClicked(g, b)

\* Score: clicks that answer the pairs top to bottom or change the last
\* answer, the second button checked in at most MaxSecond pairs
ClickMostlyFirst ==
    \E g \in Groups, b \in {1, 2} :
        /\ \A h \in Groups : h < g => checked[h] # 0
        /\ \A h \in Groups : h > g + 1 => checked[h] = 0
        /\ b = 2 => Cardinality({h \in Groups : h # g /\ checked[h] = 2}) < MaxSecond
        /\ buttonClicked(g, b)

\* Weighting: clicks that answer the pairs top to bottom, leaving at most
\* MaxSkip pairs out on the way, and that come back to a pair while at most
\* MaxRevise pairs below it are answered
ClickInOrder ==
    \E g \in Groups, b \in {1, 2} :
        /\ Cardinality({h \in Groups : h < g /\ checked[h] = 0}) <= MaxSkip
        /\ Cardinality({h \in Groups : h > g /\ checked[h] # 0}) <= MaxRevise
        /\ buttonClicked(g, b)

\* Slider: one press anywhere on or beside the widget, then a drag
Widths == MinimumWidth .. (MinimumWidth + MaxExtraWidth)
PointerRange(w) == (0 - MaxOvershoot) .. (w + MaxOvershoot)

PressAnywhere ==
    /\ page \in RatingPages
    /\ ~sliders[page].pressed
    /\ \E w \in Widths : \E x \in PointerRange(w) : mousePressEvent(x, w)

Drag ==
    /\ page \in RatingPages
    /\ \E dx \in (0 - MaxDrag) .. MaxDrag :
        /\ sliders[page].x + dx \in PointerRange(sliders[page].w)
        /\ mouseMoveEvent(sliders[page].x + dx, sliders[page].w)

\* the slider configurations tried, the program's own among them
Configs ==
    {<<DefaultMin, DefaultMax, DefaultStep>>} \cup
    {<<lo, lo + span, step>> :
        lo \in (0 - MaxOffset) .. MaxOffset, span \in 0 .. MaxSpan, step \in 1 .. MaxStep}

InitSlider ==
    /\ phase = "running"
    /\ use_weighting = TRUE
    /\ page = 0
    /\ \E cfg \in Configs :
          sliders = [p \in RatingPages |-> TLXSlider(cfg[1], cfg[2], cfg[3])]
    /\ checked = [g \in Groups |-> 0]
    /\ weights = [factor \in Factors |-> 0]
    /\ ratings = EmptyDict
    /\ warned = FALSE
    /\ result_data = NoResult
    /\ error = "none"
    /\ json_file = JsonAbsent
    /\ csv_file = CsvAbsent
    /\ runs = 1
    /\ faulted = FALSE

\* the log files as a run may find them
FoundJson ==
    {JsonAbsent, JsonText("zero"), JsonText("garbage"), JsonText("object"),
     JsonText("scalar"), JsonArray(<<>>),
     JsonArray(<<[t |-> "num", members |-> <<>>]>>)}

FoundCsv == {CsvAbsent, [exists |-> TRUE, rows |-> <<HeaderRow(Fieldnames(TRUE))>>]}

InitFound ==
    /\ \E uw \in BOOLEAN : TLXApp(uw)
    /\ json_file \in FoundJson
    /\ csv_file \in FoundCsv
    /\ runs = 1
    /\ faulted = FALSE

(***************************************************************************)
(* Specifications.                                                         *)
(***************************************************************************)
\* one run of the survey
Next ==
    \/ NextButton
    \/ BackButton
    \/ FinishButton
    \/ CancelButton
    \/ PressEdge
    \/ ClickFirstPairs

Spec == Init /\ [][Next]_vars

\* one run of the survey, gone through page by page to Finish
NextScore ==
    \/ NextButton
    \/ FinishButton
    \/ PressEdge
    \/ ClickMostlyFirst

SpecScore == Init /\ [][NextScore]_vars

\* the slider widget under any configuration
NextSlider == PressAnywhere \/ Drag

SpecSlider == InitSlider /\ [][NextSlider]_vars

\* the weighting page
NextWeights == NextButton \/ ClickInOrder

SpecWeights == Init /\ [][NextWeights]_vars

\* several runs over the same log files, which start absent
NextFiles ==
    \/ NextButton
    \/ FinishButton
    \/ CancelButton
    \/ main

SpecFiles == Init /\ [][NextFiles]_vars

\* several runs over log files found in any condition
SpecFound == InitFound /\ [][NextFiles]_vars

(***************************************************************************)
(* Properties.                                                             *)
(***************************************************************************)
\* a Finish click: the wizard is accepted
FinishStep == phase = "running" /\ phase' = "finished"

\* the track offset a pointer position stands for: positions beside the
\* track count as its nearest edge
ClampedOffset(x, w) ==
    IF x < TrackMargin THEN 0
    ELSE IF x > w - TrackMargin THEN w - 2 * TrackMargin
    ELSE x - TrackMargin

MultipleOfStep(s) == s.value % s.step = 0

InRange(s) == s.min_val <= s.value /\ s.value <= s.max_val

\* no multiple of step is nearer to min + f * (max - min), f the fraction
\* ClampedOffset / track width:  2 * |value - target| <= step
NearestMultiple(s) ==
    LET width == s.w - 2 * TrackMargin
        target == s.min_val * width + ClampedOffset(s.x, s.w) * (s.max_val - s.min_val)
    IN  2 * Abs(s.value * width - target) <= s.step * width

Aligned(s) == s.min_val % s.step = 0 /\ s.max_val % s.step = 0

SelectedFor(factor) ==
    {g \in Groups :
        \/ checked[g] = 1 /\ Pairs[g][1] = factor
        \/ checked[g] = 2 /\ Pairs[g][2] = factor}

TotalWeight ==
    weights[FACTORS[1]] + weights[FACTORS[2]] + weights[FACTORS[3]]
        + weights[FACTORS[4]] + weights[FACTORS[5]] + weights[FACTORS[6]]

\* C2: after any clicks on the weighting page, each factor's stored weight
\* is the number of pairs whose current selection is that factor, and the six
\* weights sum to at most 15.
C2_WeightsAreTheTally ==
    /\ \A factor \in Factors : weights[factor] = Cardinality(SelectedFor(factor))
    /\ TotalWeight <= 15

\* all 15 pairs answered, the first pair switched to its second option
C2_Witness ==
    /\ Cardinality(Answered(checked)) = 15
    /\ checked[1] = 2
    /\ weights["Frustration"] = 5
    /\ weights["Mental Demand"] = 0

\* C9: the warning is never shown; the weights sum to the number of answered
\* pairs, which never decreases; no weight exceeds 5; the sum never exceeds 15.
C9_WarningUnreachable ==
    /\ [](/\ ~warned
          /\ TotalWeight = Cardinality(Answered(checked))
          /\ \A factor \in Factors : weights[factor] <= 5
          /\ TotalWeight <= 15
          /\ weights["Mental Demand"] # 15)
    /\ [][Cardinality(Answered(checked')) >= Cardinality(Answered(checked))]_vars

\* all 15 pairs answered for the first factor where it is offered
C9_Witness ==
    /\ Cardinality(Answered(checked)) = 15
    /\ weights["Mental Demand"] = 5
    /\ TotalWeight = 15
    /\ ~warned

\* C3: with weighting enabled, the record built at Finish holds each
\* slider's current value as the rating, the tally of the current selections
\* as the weight, their product as the adjusted rating, and the sum of the
\* products over 15 as the weighted rating.
C3_WeightedRecord ==
    (phase = "finished" /\ use_weighting) =>
        /\ \A i \in DOMAIN FACTORS :
            /\ result_data.ratings[FACTORS[i]] = sliders[i - 1].value
            /\ result_data.weights[FACTORS[i]] = Cardinality(SelectedFor(FACTORS[i]))
            /\ result_data.adjusted_ratings[FACTORS[i]]
                  = sliders[i - 1].value * Cardinality(SelectedFor(FACTORS[i]))
        /\ result_data.weighted_rating.den = 15
        /\ result_data.weighted_rating.num
              = sliders[0].value * Cardinality(SelectedFor(FACTORS[1]))
              + sliders[1].value * Cardinality(SelectedFor(FACTORS[2]))
              + sliders[2].value * Cardinality(SelectedFor(FACTORS[3]))
              + sliders[3].value * Cardinality(SelectedFor(FACTORS[4]))
              + sliders[4].value * Cardinality(SelectedFor(FACTORS[5]))
              + sliders[5].value * Cardinality(SelectedFor(FACTORS[6]))

\* Finish with nine of the 15 pairs answered and a slider moved
C3_Witness ==
    /\ phase = "finished"
    /\ use_weighting
    /\ Cardinality(Answered(checked)) = 9
    /\ checked[9] = 2
    /\ sliders[0].value = 100
    /\ result_data.weights["Mental Demand"] = 5
    /\ result_data.weights["Frustration"] = 1
    /\ result_data.weighted_rating = Quotient(700, 15)

\* C4: with weighting disabled, the record built at Finish has no weights and
\* no adjusted ratings, its weighted rating is the sum of the six ratings over
\* 6, and that is 50 when no slider was touched.
C4_UnweightedRecord ==
    (phase = "finished" /\ ~use_weighting) =>
        /\ DOMAIN result_data.weights = {}
        /\ DOMAIN result_data.adjusted_ratings = {}
        /\ \A i \in DOMAIN FACTORS :
                result_data.ratings[FACTORS[i]] = sliders[i - 1].value
        /\ result_data.weighted_rating.den = 6
        /\ result_data.weighted_rating.num
              = sliders[0].value + sliders[1].value + sliders[2].value
              + sliders[3].value + sliders[4].value + sliders[5].value
        /\ (\A p \in RatingPages : ~sliders[p].pressed) =>
                result_data.weighted_rating.num = 50 * result_data.weighted_rating.den

\* Finish with weighting disabled and no slider touched
C4_Witness ==
    /\ phase = "finished"
    /\ ~use_weighting
    /\ \A p \in RatingPages : ~sliders[p].pressed
    /\ result_data.weighted_rating = Quotient(300, 6)

\* C5: the current page only moves to an adjacent page of the sequence,
\* Finish happens only on the last page, and the log files change in no step
\* but a Finish; closing the wizard leaves both as they were.
C5_OnlyFinishWrites ==
    [][/\ page' # page =>
            /\ page' \in {page - 1, page + 1}
            /\ page' >= 0
            /\ page' <= (IF use_weighting THEN 6 ELSE 5)
       /\ FinishStep => page = (IF use_weighting THEN 6 ELSE 5)
       /\ (json_file' # json_file \/ csv_file' # csv_file) => FinishStep
       /\ phase' = "closed" => (json_file' = json_file /\ csv_file' = csv_file)
      ]_vars

\* the wizard closed on a later page, a slider moved, nothing written
C5_Witness ==
    /\ phase = "closed"
    /\ page = 3
    /\ sliders[0].pressed
    /\ json_file.kind = "absent"
    /\ ~csv_file.exists

\* the list a reload of the JSON log gives; an absent log holds no record
Reloaded(file) == IF file.kind = "array" THEN JsonLoad(file).data ELSE <<>>

\* no file operation of the save made in this step failed
NoFaultStruck == error' # "OSError"

\* C6 as stated: a save to an empty JSON log, the file absent or newly
\* created and still without content, leaves a one-element array equal to
\* the record.
C6_AsStated ==
    [][(FinishStep /\ NoFaultStruck /\ json_file.kind \in {"absent", "zero"}) =>
            /\ json_file'.kind = "array"
            /\ Reloaded(json_file') = <<PyDict(result_data')>>
      ]_vars

\* C6 amended: a save to a JSON log that is absent or holds an array leaves
\* the array that was there with the record built appended as its last
\* element, whatever records it held (so a first save leaves a one-element
\* array equal to the record, and N saves leave the N records in call order);
\* a file without content is no empty log: the save fails and changes nothing.
C6_AppendOnly ==
    [][FinishStep =>
        /\ (NoFaultStruck /\ json_file.kind \in {"absent", "array"}) =>
                json_file'.kind = "array" /\ json_file' # json_file
        /\ (json_file' # json_file /\ json_file'.kind = "array") =>
                Reloaded(json_file') = Append(Reloaded(json_file), PyDict(result_data'))
        /\ json_file.kind = "zero" => json_file' = json_file /\ error' # "none"
      ]_vars

\* three saves of equal records: the log holds all three
C6_Witness ==
    /\ phase = "finished"
    /\ error = "none"
    /\ json_file.kind = "array"
    /\ Len(json_file.items) = 3
    /\ json_file.items[1].t = "obj"
    /\ json_file.items[1] = json_file.items[2]
    /\ json_file.items[2] = json_file.items[3]
    /\ Reloaded(json_file)[3] = PyDict(result_data)

\* the existing JSON log is a well-formed array of objects
ArrayOfObjects(file) ==
    /\ file.kind = "array"
    /\ \A i \in DOMAIN file.items : file.items[i].t = "obj"

\* C8 as stated: if the JSON log exists and is not a well-formed array of
\* objects, the save fails and changes neither file.
C8_AsStated ==
    [][(FinishStep /\ json_file.kind # "absent" /\ ~ArrayOfObjects(json_file)) =>
            /\ error' # "none"
            /\ json_file' = json_file
            /\ csv_file' = csv_file
      ]_vars

\* C8 amended: if the JSON log exists and is not an array (no bytes, text
\* that does not parse, a top-level object or scalar), the save fails and
\* changes neither file; an array is taken whatever its elements are.
C8_NotAnArrayFails ==
    [][(FinishStep /\ json_file.kind \in {"zero", "garbage", "object", "scalar"}) =>
            /\ error' \in {"JSONDecodeError", "AttributeError", "OSError"}
            /\ json_file' = json_file
            /\ csv_file' = csv_file
      ]_vars

\* Finish over a log that holds a top-level object: the append fails
C8_Witness ==
    /\ phase = "finished"
    /\ error = "AttributeError"
    /\ json_file.kind = "object"
    /\ result_data # NoResult
    /\ ~csv_file.exists

\* the columns of a run: timestamp, the six factors, the six adjusted_
\* columns when weighting is enabled, weighted_rating
Columns(weighted) == 2 + Len(FACTORS) + (IF weighted THEN Len(FACTORS) ELSE 0)

\* a JSON record of a run with weighting enabled carries its weights
Weighted(record) == DOMAIN record.d.weights # {}

\* the CSV log is one header row, then one data row per record of the JSON
\* log, in the same order
OneHeaderThenRows(rows, recs) ==
    /\ Len(rows) = Len(recs) + 1
    /\ rows[1].header
    /\ Len(rows[1].cells) = Columns(Weighted(recs[1]))
    /\ \A i \in DOMAIN recs :
        /\ ~rows[i + 1].header
        /\ rows[i + 1].cells[1] = recs[i].d.timestamp
        /\ rows[i + 1].cells[Len(rows[i + 1].cells)] = recs[i].d.weighted_rating

\* C7 as stated: after N completed surveys from an absent CSV log, whatever
\* their weighting settings, the log is one header row and N data rows in
\* append order, each with as many columns as the header.
C7_AsStated ==
    (~faulted /\ csv_file.exists) =>
        /\ OneHeaderThenRows(csv_file.rows, Reloaded(json_file))
        /\ \A i \in DOMAIN csv_file.rows :
                Len(csv_file.rows[i].cells) = Len(csv_file.rows[1].cells)

\* C7 amended: after N completed surveys from an absent CSV log, the log is
\* one header row and N data rows in append order; a data row has the columns
\* of its own run's weighting setting, which are as many as the header's when
\* that setting is the one of the run that wrote the header.
C7_OneHeaderThenRows ==
    (~faulted /\ csv_file.exists) =>
        LET recs == Reloaded(json_file)
            rows == csv_file.rows
        IN  /\ OneHeaderThenRows(rows, recs)
            /\ \A i \in DOMAIN recs :
                /\ Len(rows[i + 1].cells) = Columns(Weighted(recs[i]))
                /\ Weighted(recs[i]) = Weighted(recs[1]) =>
                        Len(rows[i + 1].cells) = Len(rows[1].cells)

\* three completed surveys with weighting enabled
C7_Witness ==
    /\ ~faulted
    /\ csv_file.exists
    /\ Len(csv_file.rows) = 4
    /\ \A i \in DOMAIN csv_file.rows : Len(csv_file.rows[i].cells) = 14
    /\ csv_file.rows[1].cells[8] = "adjusted_Mental Demand"

\* the records a reader finds in the JSON log, the data rows in the CSV log
JsonRecords == IF json_file.kind = "array" THEN Len(json_file.items) ELSE 0
CsvDataRows == Cardinality({i \in DOMAIN csv_file.rows : ~csv_file.rows[i].header})

\* C10 as stated: from absent logs, with any file operation failing, the JSON
\* log never holds fewer records than the CSV log holds data rows, and as
\* many while nothing has failed.
C10_AsStated ==
    /\ JsonRecords >= CsvDataRows
    /\ ~faulted => JsonRecords = CsvDataRows

\* C10 amended: the same, as long as the JSON log is absent or an array: a
\* failure while the array is being rewritten leaves the file, truncated when
\* it was opened, with no record to read, and the CSV log with its rows.
C10_JsonNotBehindCsv ==
    /\ json_file.kind \in {"absent", "array"} => JsonRecords >= CsvDataRows
    /\ ~faulted => JsonRecords = CsvDataRows

\* the CSV append of the second run failed: two records, one data row
C10_Witness ==
    /\ faulted
    /\ json_file.kind = "array"
    /\ JsonRecords = 2
    /\ CsvDataRows = 1
====
